---- MODULE Spec2Model ----
(***************************************************************************)
(* Model of src/index.tsx: the flashcard page's view state (mode, focused  *)
(* index, the cards of flashcardsContainer and the controls derived from   *)
(* them) and the asynchronous generation request.                          *)
(*                                                                         *)
(* Every event handler is one action: the browser runs a handler to its    *)
(* end before the next event is dispatched.  The generate handler is two   *)
(* actions, split at its only `await`.  Indices are 0-based as in the      *)
(* source; the k-th child of the container is cards[k+1].                  *)
(***************************************************************************)
EXTENDS Integers, Sequences, FiniteSets, TLC

\* ---- bounds -------------------------------------------------------------
MaxCards == 2      \* most records one response (or one key-value list) yields
MaxListeners == 2  \* most transitionend listeners registered on the cards of the container
MaxPending == 2    \* most requests awaiting their network call
MaxTextLen == 6    \* longest topic text and longest free-form response text
MaxCaseLen == 5    \* longest topic text of the emoji matching
MaxEmojiLen == 3   \* longest emoji response text of the emoji matching

\* ---- texts --------------------------------------------------------------
MsgNone == ""
MsgEnterTopic == "Please enter a topic or some terms and definitions."
MsgGenerating == "Generating flashcards..."
MsgEmojis == "Generating emojis for your list..."
MsgError == "An error occurred. Please check the console and try again."
TxtFocus == "Focus Mode"
TxtGrid == "Grid Mode"

VARIABLES
  isFocusMode,        \* let isFocusMode
  currentCardIndex,   \* let currentCardIndex
  cards,              \* children of flashcardsContainer, in document order
  detachedListeners,  \* some card no longer in the container still carries a transitionend listener
  earlierListeners,   \* ... and some such card was created by an earlier request than the latest
  shuffleHidden,      \* shuffleButton.hidden
  modeSwitchHidden,   \* modeSwitchButton.hidden
  focusNavHidden,     \* focusNav.hidden
  focusClass,         \* flashcardsContainer has class 'focus-mode'
  modeSwitchText,     \* modeSwitchButton.textContent
  cardCounter,        \* cardCounter.textContent as <<shown index, shown count>>
  errorMessage,       \* errorMessage.textContent
  generateDisabled,   \* generateButton.disabled
  pending,            \* generate handlers suspended at their await
  lastOp,             \* history: the handler that ran last, with its outcome
  topicText,          \* topicInput.value, a sequence of characters
  topic,              \* const topic of the running handler
  responseText,       \* result.text of the network call, once it resolves
  termDefPairs,       \* const termDefPairs of the running handler
  flashcards,         \* let flashcards of the running handler
  parsePc             \* where the handler stands on these texts

\* The page actions describe a topic and a response by what the handler makes
\* of them (Topics, Responses); the texts themselves are parsed by the
\* actions on textVars further down.
pageVars == <<isFocusMode, currentCardIndex, cards, detachedListeners, earlierListeners,
              shuffleHidden, modeSwitchHidden, focusNavHidden, focusClass, modeSwitchText,
              cardCounter, errorMessage, generateDisabled, pending, lastOp>>

textVars == <<topicText, topic, responseText, termDefPairs, flashcards, parsePc>>

vars == <<pageVars, textVars>>

\* ---- the page as one value ------------------------------------------------
State ==
  [isFocusMode |-> isFocusMode, currentCardIndex |-> currentCardIndex,
   cards |-> cards, detachedListeners |-> detachedListeners,
   earlierListeners |-> earlierListeners,
   shuffleHidden |-> shuffleHidden, modeSwitchHidden |-> modeSwitchHidden,
   focusNavHidden |-> focusNavHidden, focusClass |-> focusClass,
   modeSwitchText |-> modeSwitchText, cardCounter |-> cardCounter,
   errorMessage |-> errorMessage, generateDisabled |-> generateDisabled]

Set(s) ==
  /\ isFocusMode' = s.isFocusMode
  /\ currentCardIndex' = s.currentCardIndex
  /\ cards' = s.cards
  /\ detachedListeners' = s.detachedListeners
  /\ earlierListeners' = s.earlierListeners
  /\ shuffleHidden' = s.shuffleHidden
  /\ modeSwitchHidden' = s.modeSwitchHidden
  /\ focusNavHidden' = s.focusNavHidden
  /\ focusClass' = s.focusClass
  /\ modeSwitchText' = s.modeSwitchText
  /\ cardCounter' = s.cardCounter
  /\ errorMessage' = s.errorMessage
  /\ generateDisabled' = s.generateDisabled
  /\ UNCHANGED textVars

Op(name, ok, n) == [op |-> name, ok |-> ok, n |-> n]

\* ---- cards ----------------------------------------------------------------
\* The element built for the k-th record of a response: no class but
\* 'flashcard', one click listener for delete registered on its button.
NewCard(k) ==
  [id |-> k, flipped |-> FALSE, active |-> FALSE, removing |-> FALSE, listeners |-> 0]

NewCardsReversed(n) == [k \in 1..n |-> NewCard(n + 1 - k)]

\* flashcards.forEach(... flashcardsContainer.appendChild(flashcard))
NewCards(n) == [k \in 1..n |-> NewCard(k)]

RECURSIVE TotalListeners(_)
TotalListeners(cs) ==
  IF cs = <<>> THEN 0 ELSE Head(cs).listeners + TotalListeners(Tail(cs))

HasListeners(cs) == \E k \in 1..Len(cs) : cs[k].listeners > 0

\* flashcardsContainer.textContent = '' : every child leaves the document,
\* keeping the listeners that were registered on it.
ClearContainer(s) ==
  [s EXCEPT !.cards = <<>>,
            !.detachedListeners = s.detachedListeners \/ HasListeners(s.cards)]

\* ---- resetUI --------------------------------------------------------------
ResetUI(s) ==
  [s EXCEPT !.isFocusMode = FALSE, !.currentCardIndex = 0, !.focusClass = FALSE,
            !.modeSwitchText = TxtFocus, !.modeSwitchHidden = TRUE,
            !.shuffleHidden = TRUE, !.focusNavHidden = TRUE]

\* ---- updateCardVisibility ---------------------------------------------------
UpdateCardVisibility(s) ==
  LET cs == s.cards
      hasCards == Len(cs) > 0
      s1 == [s EXCEPT !.shuffleHidden = ~hasCards,
                      !.modeSwitchHidden = ~hasCards,
                      !.focusNavHidden = (~s.isFocusMode) \/ ~hasCards]
  IN  IF ~hasCards
        THEN [s1 EXCEPT !.isFocusMode = FALSE, !.focusClass = FALSE,
                        !.modeSwitchText = TxtFocus]
        ELSE IF s1.isFocusMode
          THEN [s1 EXCEPT
                  !.focusClass = TRUE,
                  !.modeSwitchText = TxtGrid,
                  !.cards = [k \in 1..Len(cs) |->
                               [cs[k] EXCEPT !.active = (k - 1 = s.currentCardIndex)]],
                  !.cardCounter = <<s.currentCardIndex + 1, Len(cs)>>]
          ELSE [s1 EXCEPT
                  !.focusClass = FALSE,
                  !.modeSwitchText = TxtFocus,
                  !.cards = [k \in 1..Len(cs) |-> [cs[k] EXCEPT !.active = FALSE]]]

\* ---- navigateCards ----------------------------------------------------------
Unflip(cs, k) ==
  IF k \in 1..Len(cs) THEN [cs EXCEPT ![k].flipped = FALSE] ELSE cs

NavigateCardsNoGuard(s, direction) ==
  LET n == Len(s.cards)
      newIndex == IF n = 0 THEN s.currentCardIndex
                  ELSE IF direction = "next" THEN (s.currentCardIndex + 1) % n
                  ELSE (s.currentCardIndex - 1 + n) % n
  IN  UpdateCardVisibility([s EXCEPT !.cards = Unflip(s.cards, s.currentCardIndex + 1),
                                     !.currentCardIndex = newIndex])

NavigateCardsNoWrap(s, direction) ==
  LET n == Len(s.cards)
      newIndex == IF direction = "next"
                    THEN IF s.currentCardIndex + 1 >= n THEN n - 1
                         ELSE s.currentCardIndex + 1
                    ELSE IF s.currentCardIndex = 0 THEN 0
                         ELSE s.currentCardIndex - 1
  IN  IF n <= 1 THEN s
      ELSE UpdateCardVisibility(
             [s EXCEPT !.cards = Unflip(s.cards, s.currentCardIndex + 1),
                       !.currentCardIndex = newIndex])

NavigateCards(s, direction) ==
  LET n == Len(s.cards)
      newIndex == IF direction = "next" THEN (s.currentCardIndex + 1) % n
                  ELSE (s.currentCardIndex - 1 + n) % n
  IN  IF n <= 1 THEN s
      ELSE UpdateCardVisibility(
             [s EXCEPT !.cards = Unflip(s.cards, s.currentCardIndex + 1),
                       !.currentCardIndex = newIndex])

\* ---- modeSwitchButton click -------------------------------------------------
ToggleModeKeepFlips(s) ==
  UpdateCardVisibility(
    IF ~s.isFocusMode
      THEN [s EXCEPT !.isFocusMode = TRUE, !.currentCardIndex = 0]
      ELSE [s EXCEPT !.isFocusMode = FALSE])

ToggleMode(s) ==
  LET focus == ~s.isFocusMode
      s1 == IF focus
              THEN [s EXCEPT !.isFocusMode = TRUE, !.currentCardIndex = 0]
              ELSE [s EXCEPT !.isFocusMode = FALSE,
                             !.cards = [k \in 1..Len(s.cards) |->
                                          [s.cards[k] EXCEPT !.flipped = FALSE]]]
  IN  UpdateCardVisibility(s1)

\* ---- shuffleButton click ----------------------------------------------------
IndexOf(seq, id) == CHOOSE k \in 1..Len(seq) : seq[k].id = id

InsertBeforeDropping(seq, node, ref) ==
  IF node = ref THEN seq ELSE SelectSeq(seq, LAMBDA c : c.id # node)

\* parent.insertBefore(node, ref) for two children of parent: node is moved
\* to just before ref; inserting a node before itself leaves the order alone.
InsertBefore(seq, node, ref) ==
  IF node = ref THEN seq
  ELSE LET moved == seq[IndexOf(seq, node)]
           rest == SelectSeq(seq, LAMBDA c : c.id # node)
           p == IndexOf(rest, ref)
       IN  SubSeq(rest, 1, p - 1) \o <<moved>> \o SubSeq(rest, p, Len(rest))

\* The loop body for i, i-1, ..., 1 with j = js[i]; arr is the snapshot
\* Array.from(querySelectorAll('.flashcard')) as a sequence of card ids.
RECURSIVE ShuffleFrom(_, _, _, _)
ShuffleFrom(dom, arr, i, js) ==
  IF i <= 0 THEN dom
  ELSE ShuffleFrom(InsertBefore(dom, arr[js[i] + 1], arr[i + 1]), arr, i - 1, js)

\* Math.floor(Math.random() * (i + 1)) for every i of the loop
RandomChoices(n) ==
  {js \in [1..(n - 1) -> 0..(n - 1)] : \A i \in 1..(n - 1) : js[i] <= i}

\* the choices for every number of cards the container can hold
AllChoices == UNION {RandomChoices(n) : n \in 0..(MaxCards + 1)}

Shuffled(cs, js) ==
  ShuffleFrom(cs, [k \in 1..Len(cs) |-> cs[k].id], Len(cs) - 1, js)

\* ---- card listeners ---------------------------------------------------------
\* What the user can click.  A control whose `hidden` is set is not
\* displayed (the guards of the click actions below); in the focus layout,
\* the container's 'focus-mode' class, only the card with class 'active' is
\* displayed.  Events the browser raises itself (transitionend) are not
\* restricted this way.
Visible(c) == (~focusClass) \/ c.active

\* flashcard.remove(); updateCardVisibility();
RemovalCallback(s, id) ==
  UpdateCardVisibility([s EXCEPT !.cards = SelectSeq(s.cards, LAMBDA c : c.id # id)])

\* one transitionend event on a card runs every listener registered on it
RECURSIVE RunListeners(_, _, _)
RunListeners(s, id, k) ==
  IF k = 0 THEN s ELSE RunListeners(RemovalCallback(s, id), id, k - 1)

\* ---- generateButton click ---------------------------------------------------
\* A topic is described by what the handler looks at: whether the trimmed
\* text is empty, whether it has both ':' and '\n', and, for a key-value
\* list, how many term/definition pairs its lines give.
Topics(m) ==
  {[kind |-> "empty", pairs |-> 0], [kind |-> "free", pairs |-> 0]}
    \cup {[kind |-> "kv", pairs |-> n] : n \in 1..m}

\* The network call: rejected, or resolved with a text of `lines` lines that
\* have at least three colon-separated parts.
Responses(m) == [ok : BOOLEAN, lines : 0..m]

\* flashcards.length after parsing
Flashcards(req, r) == IF req.kind = "kv" THEN req.pairs ELSE r.lines

ThrowsOnlyOnReject(req, r) == ~r.ok

\* the awaited call rejects, or `flashcards.length === 0`
Throws(req, r) == (~r.ok) \/ Flashcards(req, r) = 0

BeginRequestNoDisable(s, t) ==
  LET s0 == ResetUI(ClearContainer([s EXCEPT !.errorMessage = MsgGenerating]))
      s1 == [s0 EXCEPT !.earlierListeners = s0.detachedListeners]
  IN  IF t.kind = "kv" THEN [s1 EXCEPT !.errorMessage = MsgEmojis] ELSE s1

\* lines 187-198: the handler from the topic check to its await.  Every card
\* that is detached by now belongs to an earlier request than this one.
BeginRequest(s, t) ==
  LET s0 == [ResetUI(ClearContainer([s EXCEPT !.errorMessage = MsgGenerating]))
               EXCEPT !.generateDisabled = TRUE]
      s1 == [s0 EXCEPT !.earlierListeners = s0.detachedListeners]
  IN  IF t.kind = "kv" THEN [s1 EXCEPT !.errorMessage = MsgEmojis] ELSE s1

FinallyNoEnable(s) == UpdateCardVisibility(s)

\* finally { generateButton.disabled = false; updateCardVisibility(); }
Finally(s) == UpdateCardVisibility([s EXCEPT !.generateDisabled = FALSE])

\* the handler after its await: parse, render or catch, finally
Continuation(s, req, r) ==
  Finally(IF Throws(req, r)
            THEN [s EXCEPT !.errorMessage = MsgError]
            ELSE [s EXCEPT !.errorMessage = MsgNone,
                           !.cards = s.cards \o NewCards(Flashcards(req, r))])

RemoveAt(seq, i) == SubSeq(seq, 1, i - 1) \o SubSeq(seq, i + 1, Len(seq))

\* ---- initial state ----------------------------------------------------------
\* What the page's markup gives the elements before any handler has run: the
\* card controls hidden, no card, no message, the generate button enabled.
InitialMarkup ==
  /\ cards = <<>>
  /\ shuffleHidden = TRUE
  /\ modeSwitchHidden = TRUE
  /\ focusNavHidden = TRUE
  /\ focusClass = FALSE
  /\ modeSwitchText = TxtFocus
  /\ cardCounter = <<0, 0>>
  /\ errorMessage = MsgNone
  /\ generateDisabled = FALSE

\* no text is being parsed
TextIdle ==
  /\ topicText = <<>>
  /\ topic = <<>>
  /\ responseText = <<>>
  /\ termDefPairs = <<>>
  /\ flashcards = <<>>
  /\ parsePc = "idle"

PageInit ==
  /\ isFocusMode = FALSE
  /\ currentCardIndex = 0
  /\ InitialMarkup
  /\ detachedListeners = FALSE
  /\ earlierListeners = FALSE
  /\ pending = <<>>
  /\ lastOp = Op("init", TRUE, 0)

Init == PageInit /\ TextIdle

\* ---- actions ----------------------------------------------------------------
GenerateClick(t) ==
  /\ ~generateDisabled
  /\ IF t.kind = "empty"
       THEN /\ Set(ClearContainer([State EXCEPT !.errorMessage = MsgEnterTopic]))
            /\ UNCHANGED pending
       ELSE /\ Len(pending) < MaxPending
            /\ Set(BeginRequest(State, t))
            /\ pending' = Append(pending, t)
  /\ lastOp' = Op("generate", t.kind # "empty", t.pairs)

GenerateSettle(i, r) ==
  /\ i \in 1..Len(pending)
  /\ Set(Continuation(State, pending[i], r))
  /\ pending' = RemoveAt(pending, i)
  /\ lastOp' = Op("settle", r.ok, IF r.ok THEN Flashcards(pending[i], r) ELSE 0)

ModeSwitchClick ==
  /\ ~modeSwitchHidden
  /\ Set(ToggleMode(State))
  /\ lastOp' = Op("toggle", TRUE, 0)
  /\ UNCHANGED pending

NavClick(direction) ==
  /\ ~focusNavHidden
  /\ Set(NavigateCards(State, direction))
  /\ lastOp' = Op(direction, TRUE, Len(cards))
  /\ UNCHANGED pending

ShuffleClick(js) ==
  /\ ~shuffleHidden
  /\ DOMAIN js = 1..(Len(cards) - 1)
  /\ Set([State EXCEPT !.cards = Shuffled(cards, js)])
  /\ lastOp' = Op("shuffle", TRUE, 0)
  /\ UNCHANGED pending

CardClick(k) ==
  /\ k \in 1..Len(cards)
  /\ Visible(cards[k])
  /\ Set([State EXCEPT !.cards[k].flipped = ~cards[k].flipped])
  /\ lastOp' = Op("flip", TRUE, 0)
  /\ UNCHANGED pending

DeleteClick(k) ==
  /\ k \in 1..Len(cards)
  /\ Visible(cards[k])
  /\ TotalListeners(cards) < MaxListeners
  /\ Set([State EXCEPT !.cards[k].removing = TRUE,
                       !.cards[k].listeners = cards[k].listeners + 1])
  /\ lastOp' = Op("delete", TRUE, 0)
  /\ UNCHANGED pending

\* transitionend reaches a card of the container that has listeners for it;
\* lastOp.n is the number of listeners the event runs
TransitionEnd(k) ==
  /\ k \in 1..Len(cards)
  /\ cards[k].listeners > 0
  /\ Set(RunListeners([State EXCEPT !.detachedListeners = TRUE],
                      cards[k].id, cards[k].listeners))
  /\ lastOp' = Op("transitionend", TRUE, cards[k].listeners)
  /\ UNCHANGED pending

\* transitionend reaches a card that already left the container: remove()
\* finds no parent and the listener goes on to updateCardVisibility()
DetachedTransitionEnd ==
  /\ detachedListeners
  /\ Set(UpdateCardVisibility(State))
  /\ lastOp' = Op("stale", TRUE, Len(cards))
  /\ UNCHANGED pending

\* every event the page can receive, with at most m records per request
Step(m) ==
  \/ \E t \in Topics(m) : GenerateClick(t)
  \/ \E i \in 1..MaxPending, r \in Responses(m) : GenerateSettle(i, r)
  \/ ModeSwitchClick
  \/ \E d \in {"next", "prev"} : NavClick(d)
  \/ \E js \in AllChoices : ShuffleClick(js)
  \/ \E k \in 1..m : CardClick(k)
  \/ \E k \in 1..m : DeleteClick(k)
  \/ \E k \in 1..m : TransitionEnd(k)
  \/ DetachedTransitionEnd

Next == Step(MaxCards)

Spec == Init /\ [][Next]_vars

\* The awaited network call settles (the service answers or the call
\* rejects), and its continuation is then run by the event loop.
Settles == \E i \in 1..MaxPending, r \in Responses(MaxCards) : GenerateSettle(i, r)

FairSpec == Spec /\ WF_vars(Settles)

\* the same page with one more record per request
WideNext == Step(MaxCards + 1)

WideSpec == Init /\ [][WideNext]_vars

\* ---- the page with its cards on display ---------------------------------------
\* The page right after its first successful request of n records, as
\* Continuation leaves it, and ...
ShownInit ==
  /\ \E n \in 1..(MaxCards + 1) :
        /\ cards = NewCards(n)
        /\ lastOp = Op("settle", TRUE, n)
  /\ isFocusMode = FALSE
  /\ currentCardIndex = 0
  /\ detachedListeners = FALSE
  /\ earlierListeners = FALSE
  /\ shuffleHidden = FALSE
  /\ modeSwitchHidden = FALSE
  /\ focusNavHidden = TRUE
  /\ focusClass = FALSE
  /\ modeSwitchText = TxtFocus
  /\ cardCounter = <<0, 0>>
  /\ errorMessage = MsgNone
  /\ generateDisabled = FALSE
  /\ pending = <<>>
  /\ TextIdle

\* ... the events that neither delete a card nor start a request.
ShownNext ==
  \/ GenerateClick([kind |-> "empty", pairs |-> 0])
  \/ ModeSwitchClick
  \/ \E d \in {"next", "prev"} : NavClick(d)
  \/ \E js \in AllChoices : ShuffleClick(js)
  \/ \E k \in 1..(MaxCards + 1) : CardClick(k)

ShownSpec == ShownInit /\ [][ShownNext]_vars

\* ---- texts and their parsing ---------------------------------------------------
\* A text is a sequence of one-character strings.
Chars == {"a", ":", " ", "\n"}
CaseChars == {"a", "A", ":", "\n"}

\* what String.prototype.trim() strips, among the characters above
WhiteSpace == {" ", "\n"}

\* the default emoji of line 251
Fallback == <<"*">>

Texts(alphabet, n) == UNION {[1..k -> alphabet] : k \in 0..n}

\* s.includes(c)
Includes(s, c) == \E k \in 1..Len(s) : s[k] = c

IndexOfChar(s, c) == CHOOSE k \in 1..Len(s) : s[k] = c /\ \A h \in 1..(k - 1) : s[h] # c

RECURSIVE TrimStart(_)
TrimStart(s) == IF s # <<>> /\ Head(s) \in WhiteSpace THEN TrimStart(Tail(s)) ELSE s

RECURSIVE TrimEnd(_)
TrimEnd(s) ==
  IF s # <<>> /\ s[Len(s)] \in WhiteSpace THEN TrimEnd(SubSeq(s, 1, Len(s) - 1)) ELSE s

\* s.trim()
Trim(s) == TrimEnd(TrimStart(s))

\* s.split(sep) for a one-character separator
RECURSIVE Split(_, _)
Split(s, sep) ==
  IF ~Includes(s, sep) THEN <<s>>
  ELSE LET k == IndexOfChar(s, sep)
       IN  <<SubSeq(s, 1, k - 1)>> \o Split(SubSeq(s, k + 1, Len(s)), sep)

\* parts.join(sep)
RECURSIVE Join(_, _)
Join(parts, sep) ==
  IF parts = <<>> THEN <<>>
  ELSE IF Len(parts) = 1 THEN parts[1]
  ELSE parts[1] \o <<sep>> \o Join(Tail(parts), sep)

LowerChar(c) == IF c = "A" THEN "a" ELSE c

\* s.toLowerCase()
ToLowerCase(s) == [k \in 1..Len(s) |-> LowerChar(s[k])]

\* topic.includes(':') && topic.includes('\n')
IsKeyValueInput(t) == Includes(t, ":") /\ Includes(t, "\n")

KeepLineWithTerm(line) ==
  Includes(line, ":") /\ Trim(SubSeq(line, 1, IndexOfChar(line, ":") - 1)) # <<>>

\* the filter of lines 202 and 233
KeepLine(line) == Trim(line) # <<>> /\ Includes(line, ":")

TermDefPairSecondPart(line) ==
  LET parts == Split(line, ":")
  IN  [term |-> Trim(parts[1]), definition |-> Trim(parts[2])]

\* lines 204-207, and 235-237 for a line of the emoji response
TermDefPair(line) ==
  LET parts == Split(line, ":")
  IN  [term |-> Trim(parts[1]), definition |-> Trim(Join(Tail(parts), ":"))]

\* lines 200-208
TermDefPairs(t) ==
  LET lines == SelectSeq(Split(t, "\n"), KeepLine)
  IN  [k \in 1..Len(lines) |-> TermDefPair(lines[k])]

Terms(pairs) == [k \in 1..Len(pairs) |-> pairs[k].term]

\* terms.find(t => t.toLowerCase() === term.toLowerCase()): the position of
\* the first such term, 0 for undefined
Find(terms, term) ==
  IF \E k \in 1..Len(terms) : ToLowerCase(terms[k]) = ToLowerCase(term)
    THEN CHOOSE k \in 1..Len(terms) :
           /\ ToLowerCase(terms[k]) = ToLowerCase(term)
           /\ \A h \in 1..(k - 1) : ToLowerCase(terms[h]) # ToLowerCase(term)
    ELSE 0

\* lines 230-245: the Map after the lines have been taken in order; a found
\* term that is the empty string is falsy and sets nothing
RECURSIVE EmojiMap(_, _, _)
EmojiMap(lines, terms, map) ==
  IF lines = <<>> THEN map
  ELSE LET p == TermDefPair(Head(lines))
           f == Find(terms, p.term)
           next == IF f # 0 /\ terms[f] # <<>>
                     THEN [t \in DOMAIN map \cup {terms[f]} |->
                             IF t = terms[f] THEN p.definition ELSE map[t]]
                     ELSE map
       IN  EmojiMap(Tail(lines), terms, next)

\* lines 229-252: the records of the key-value path
KvFlashcards(pairs, response) ==
  LET lines == SelectSeq(Split(response, "\n"), KeepLine)
      map == EmojiMap(lines, Terms(pairs), [t \in {} |-> <<>>])
  IN  [k \in 1..Len(pairs) |->
         [term |-> pairs[k].term,
          definition |-> pairs[k].definition,
          emoji |-> IF pairs[k].term \in DOMAIN map /\ map[pairs[k].term] # <<>>
                      THEN map[pairs[k].term] ELSE Fallback]]

FreeCardOfTwoParts(line) ==
  LET parts == Split(line, ":")
  IN  IF Len(parts) >= 2
        THEN <<[emoji |-> Trim(parts[1]), term |-> Trim(parts[2]),
                definition |-> Trim(Join(Tail(Tail(parts)), ":"))]>>
        ELSE <<>>

\* lines 271-280: the record of one line, or nothing for null
FreeCard(line) ==
  LET parts == Split(line, ":")
  IN  IF Len(parts) >= 3
        THEN <<[emoji |-> Trim(parts[1]), term |-> Trim(parts[2]),
                definition |-> Trim(Join(Tail(Tail(parts)), ":"))]>>
        ELSE <<>>

RECURSIVE Flatten(_)
Flatten(ss) == IF ss = <<>> THEN <<>> ELSE Head(ss) \o Flatten(Tail(ss))

NonBlank(line) == Trim(line) # <<>>

\* lines 267-281: the records of the free-form path
FreeFlashcards(response) ==
  LET lines == SelectSeq(Split(response, "\n"), NonBlank)
  IN  Flatten([k \in 1..Len(lines) |-> FreeCard(lines[k])])

\* the generate handler on its texts, from the click to its await
ParseClick ==
  /\ parsePc = "click"
  /\ topic' = Trim(topicText)
  /\ IF topic' = <<>>
       THEN parsePc' = "empty" /\ UNCHANGED termDefPairs
       ELSE IF IsKeyValueInput(topic')
         THEN /\ termDefPairs' = TermDefPairs(topic')
              /\ parsePc' = IF termDefPairs' = <<>> THEN "invalid" ELSE "awaitEmoji"
         ELSE parsePc' = "awaitTopic" /\ UNCHANGED termDefPairs
  /\ UNCHANGED <<topicText, responseText, flashcards, pageVars>>

\* the records are rendered, or the empty-result check of line 284 throws
Rendered(records) ==
  /\ flashcards' = records
  /\ IF records = <<>>
       THEN parsePc' = "failed" /\ UNCHANGED topicText
       ELSE parsePc' = "rendered" /\ topicText' = <<>>
  /\ UNCHANGED <<topic, responseText, termDefPairs, pageVars>>

\* the emoji call resolves with responseText
EmojiSettle ==
  /\ parsePc = "awaitEmoji"
  /\ Rendered(KvFlashcards(termDefPairs, responseText))

\* the free-form call resolves with responseText
FreeSettle ==
  /\ parsePc = "awaitTopic"
  /\ Rendered(FreeFlashcards(responseText))

ParseNext == ParseClick \/ EmojiSettle \/ FreeSettle

TextInit(topics, responses) ==
  /\ PageInit
  /\ topicText \in topics
  /\ responseText \in responses
  /\ topic = <<>>
  /\ termDefPairs = <<>>
  /\ flashcards = <<>>
  /\ parsePc = "click"

\* every topic text, with an emoji response that names the term a or nothing
KvInit == TextInit(Texts(Chars, MaxTextLen), {<<>>, <<"a", ":", "a">>})

KvSpec == KvInit /\ [][ParseNext]_vars

\* every response text, for a free-form topic and for a key-value list
FreeInit == TextInit({<<"a">>, <<"a", ":", "a", "\n", "a">>}, Texts(Chars, MaxTextLen))

FreeSpec == FreeInit /\ [][ParseNext]_vars

\* topic texts and emoji responses with terms in both cases
EmojiInit == TextInit(Texts(CaseChars, MaxCaseLen), Texts(CaseChars, MaxEmojiLen))

EmojiSpec == EmojiInit /\ [][ParseNext]_vars

\* ---- properties --------------------------------------------------------------
Flips(cs) == [k \in 1..Len(cs) |-> cs[k].flipped]
ActiveAt(cs) == {k \in 1..Len(cs) : cs[k].active}

\* C1: in Focus mode with a non-empty card sequence the focused index is a
\* valid index of the sequence (a removal that leaves it beyond the new
\* length clamps it back).
C1_FocusedIndexInRange ==
  (isFocusMode /\ cards # <<>>) => currentCardIndex \in 0..(Len(cards) - 1)

\* C2: whenever the card sequence is empty the mode is Grid, after every
\* handler, the empty-topic Generate click included.
C2_EmptyIsGrid == (cards = <<>>) => ~isFocusMode

\* C3: a delete completion that removes the last remaining card leaves
\* mode = Grid and focusedIndex = 0.
C3_LastRemovalResets ==
  (lastOp.op = "transitionend" /\ cards = <<>>)
    => (~isFocusMode /\ currentCardIndex = 0)

\* C4: after generation, removal, toggleMode, navigate and shuffle the derived
\* state is consistent: in Focus mode with cards exactly one card is active,
\* it is the card at focusedIndex, and the counter shows focusedIndex+1 of the
\* count; in Grid mode no card is active.
C4_DerivedStateConsistent ==
  lastOp.op \in {"settle", "transitionend", "toggle", "next", "prev", "shuffle"}
    => /\ (isFocusMode /\ cards # <<>>)
            => /\ ActiveAt(cards) = {currentCardIndex + 1}
               /\ cardCounter = <<currentCardIndex + 1, Len(cards)>>
       /\ (~isFocusMode) => ActiveAt(cards) = {}

\* C5: after every handler the mode-switch and shuffle controls are visible
\* iff there are cards, and the focus navigation is visible iff the mode is
\* Focus and there are cards.
C5_ControlsFollowCards ==
  /\ shuffleHidden = (cards = <<>>)
  /\ modeSwitchHidden = (cards = <<>>)
  /\ focusNavHidden = ~(isFocusMode /\ cards # <<>>)

\* C6: at most one generation call is in flight, and while one is in flight
\* the generate control is disabled.
C6_OneCallInFlight ==
  /\ Len(pending) <= 1
  /\ (pending # <<>>) => generateDisabled

\* a call is in flight and another event was handled meanwhile
C6_Witness == Len(pending) = 1 /\ generateDisabled /\ lastOp.op = "stale"

\* the handler that resumes when the network call completes leaves the
\* generate control enabled, and the control is disabled only while a call
\* is in flight
ReenabledOnCompletion ==
  /\ (lastOp.op = "settle") => ~generateDisabled
  /\ generateDisabled => pending # <<>>

\* C7: every started request re-enables the generate control when its
\* network call completes, whatever the outcome (call error, zero records,
\* success); a disabled control always becomes enabled again.
C7_ControlReenabled ==
  []ReenabledOnCompletion /\ (generateDisabled ~> ~generateDisabled)

\* a request whose call failed has completed and the control is enabled
C7_Witness == lastOp.op = "settle" /\ ~lastOp.ok /\ ~generateDisabled

\* C8: after a successful request the cards are exactly one per record of the
\* response, in record order, all unflipped, and mode = Grid, focusedIndex = 0.
C8_SuccessReplacesCards ==
  (lastOp.op = "settle" /\ lastOp.ok /\ lastOp.n > 0)
    => /\ Len(cards) = lastOp.n
       /\ \A k \in 1..Len(cards) : cards[k].id = k /\ ~cards[k].flipped
       /\ ~isFocusMode
       /\ currentCardIndex = 0

\* a response of several records has been rendered
C8_Witness == lastOp.op = "settle" /\ lastOp.ok /\ lastOp.n = MaxCards /\ Len(cards) = MaxCards

\* C9: after a failed request (call error or zero records parsed) no card is
\* shown, the mode is Grid, the error message is displayed and no call is in
\* flight.
C9_FailureShowsNothing ==
  (lastOp.op = "settle" /\ (~lastOp.ok \/ lastOp.n = 0))
    => /\ cards = <<>>
       /\ ~isFocusMode
       /\ errorMessage = MsgError
       /\ pending = <<>>

\* a response that parsed to zero records has been handled
C9_Witness == lastOp.op = "settle" /\ lastOp.ok /\ lastOp.n = 0 /\ errorMessage = MsgError

\* C10: navigate on a sequence of zero or one card changes neither the
\* focused index nor any card's flipped flag.
C10_NavigateNoop ==
  [][(lastOp'.op \in {"next", "prev"} /\ Len(cards) <= 1)
       => (currentCardIndex' = currentCardIndex /\ Flips(cards') = Flips(cards))]_vars

\* navigate has run on a single card that is flipped
C10_Witness ==
  lastOp.op \in {"next", "prev"} /\ Len(cards) = 1 /\ cards[1].flipped

\* C11: with at least two cards navigate(next) sets the focused index to
\* (index + 1) mod count and navigate(prev) to (index - 1) mod count.
C11_NavigateWraps ==
  [][(Len(cards) >= 2 /\ lastOp'.op \in {"next", "prev"})
       => currentCardIndex' =
            IF lastOp'.op = "next" THEN (currentCardIndex + 1) % Len(cards)
            ELSE (currentCardIndex - 1) % Len(cards)]_vars

\* prev has run from index 0 and the index is now the last one
C11_Witness ==
  /\ lastOp.op = "prev"
  /\ Len(cards) >= 3
  /\ currentCardIndex = Len(cards) - 1
  /\ cardCounter = <<Len(cards), Len(cards)>>

Count(cs, c) == Cardinality({k \in 1..Len(cs) : cs[k] = c})

\* C12: shuffle leaves the same cards with the same multiplicities, each
\* with its flipped flag, and changes neither the mode nor the focused index.
C12_ShuffleIsPermutation ==
  [][(lastOp'.op = "shuffle")
       => /\ Len(cards') = Len(cards)
          /\ \A k \in 1..Len(cards) : Count(cards', cards[k]) = Count(cards, cards[k])
          /\ isFocusMode' = isFocusMode
          /\ currentCardIndex' = currentCardIndex]_vars

\* a shuffle has moved a flipped card to the front
C12_Witness ==
  /\ lastOp.op = "shuffle"
  /\ Len(cards) >= 3
  /\ cards[1].id = 2
  /\ cards[1].flipped

\* Fisher-Yates as the specification words it: for i from the last position
\* down to 1, swap the elements at positions i and j = js[i] (0-based).
RECURSIVE FisherYates(_, _, _)
FisherYates(seq, i, js) ==
  IF i <= 0 THEN seq
  ELSE FisherYates([seq EXCEPT ![i + 1] = seq[js[i] + 1], ![js[i] + 1] = seq[i + 1]],
                   i - 1, js)

Ids(cs) == [k \in 1..Len(cs) |-> cs[k].id]

\* C16: for every choice of the random indices the order after shuffle is the
\* one the swaps of Fisher-Yates give.
C16_ShuffleIsFisherYates ==
  [][\A js \in AllChoices :
       ShuffleClick(js) => Ids(cards') = FisherYates(Ids(cards), Len(cards) - 1, js)]_vars

\* C18: toggleMode from Focus to Grid leaves no card of the sequence flipped.
C18_LeavingFocusUnflips ==
  [][(isFocusMode /\ lastOp'.op = "toggle")
       => (~isFocusMode' /\ \A k \in 1..Len(cards') : ~cards'[k].flipped)]_vars

\* Focus was left with cards on display, one of them awaiting its removal
C18_Witness ==
  /\ lastOp.op = "toggle"
  /\ ~isFocusMode
  /\ \E k \in 1..Len(cards) : cards[k].removing

\* C17: a completion event of a card whose deletion was requested runs the
\* removal (remove the card, recompute the derived state) exactly once and
\* removes that card only, however often delete was clicked on it.
C17_RemovalRunsOnce ==
  [][(lastOp'.op = "transitionend")
       => /\ lastOp'.n = 1
          /\ \E k \in 1..Len(cards) :
               cards[k].listeners > 0 /\ Ids(cards') = Ids(RemoveAt(cards, k))]_vars

\* C19: a removal callback of a card of an earlier batch that fires after a
\* new request has begun leaves the card sequence, the mode and the focused
\* index as they are.
C19_StaleCallbackHarmless ==
  [][(earlierListeners /\ lastOp'.op = "stale")
       => /\ Ids(cards') = Ids(cards)
          /\ Flips(cards') = Flips(cards)
          /\ isFocusMode' = isFocusMode
          /\ currentCardIndex' = currentCardIndex]_vars

\* ---- properties of the parsing -------------------------------------------------
\* a line is blank when it has nothing but white space
IsBlank(line) == \A k \in 1..Len(line) : line[k] \in WhiteSpace

ColonCount(line) == Cardinality({k \in 1..Len(line) : line[k] = ":"})

Before(line) == SubSeq(line, 1, IndexOfChar(line, ":") - 1)
After(line) == SubSeq(line, IndexOfChar(line, ":") + 1, Len(line))

\* the lines of a text that are not blank and have at least n colons
LinesWithColons(text, n) ==
  SelectSeq(Split(text, "\n"), LAMBDA l : ~IsBlank(l) /\ ColonCount(l) >= n)

KeyValuePath == IsKeyValueInput(topic)
FreeFormPath == topic # <<>> /\ ~IsKeyValueInput(topic)

\* C13: in key-value mode with a successful emoji call there is exactly one
\* record per line that is not blank and has a colon, in line order, with
\* term = the trimmed text before the first colon and definition = the
\* trimmed text after the first colon, further colons kept.
C13_KeyValueRecords ==
  (parsePc = "rendered" /\ KeyValuePath)
    => LET lines == LinesWithColons(topic, 1)
       IN  /\ Len(flashcards) = Len(lines)
           /\ \A k \in 1..Len(lines) :
                /\ flashcards[k].term = Trim(Before(lines[k]))
                /\ flashcards[k].definition = Trim(After(lines[k]))

\* a key-value list with a line that was dropped and a definition that kept
\* a colon has been rendered
C13_Witness ==
  /\ parsePc = "rendered"
  /\ KeyValuePath
  /\ Len(flashcards) < Len(Split(topic, "\n"))
  /\ \E k \in 1..Len(flashcards) : Includes(flashcards[k].definition, ":")

\* the emojis of the response lines whose term is t ignoring case
EmojisFor(t, text) ==
  LET lines == LinesWithColons(text, 1)
  IN  {Trim(After(lines[k])) : k \in {h \in 1..Len(lines) :
         ToLowerCase(Trim(Before(lines[h]))) = ToLowerCase(t)}}

\* C14: in key-value mode every record keeps its original term; a term that
\* a response line names, ignoring case, with a non-empty emoji gets the
\* emoji of such a line; a term no line names gets the fallback emoji; no
\* record has an empty emoji.
C14_EmojiMatching ==
  (parsePc = "rendered" /\ KeyValuePath)
    => \A k \in 1..Len(flashcards) :
         LET t == termDefPairs[k].term
             found == EmojisFor(t, responseText)
         IN  /\ flashcards[k].term = t
             /\ flashcards[k].emoji # <<>>
             /\ (found \ {<<>>} # {}) => flashcards[k].emoji \in found \ {<<>>}
             /\ (found = {}) => flashcards[k].emoji = Fallback

\* C15: in free-form mode the records are the response lines that are not
\* blank and have at least two colons, in order, with emoji, term and
\* definition the trimmed first, second and remaining parts; other lines are
\* dropped, and the request fails exactly when no line qualifies.
C15_FreeFormRecords ==
  (parsePc \in {"rendered", "failed"} /\ FreeFormPath)
    => LET lines == LinesWithColons(responseText, 2)
       IN  /\ Len(flashcards) = Len(lines)
           /\ \A k \in 1..Len(lines) :
                /\ flashcards[k].emoji = Trim(Before(lines[k]))
                /\ flashcards[k].term = Trim(Before(After(lines[k])))
                /\ flashcards[k].definition = Trim(After(After(lines[k])))
           /\ (parsePc = "failed") <=> (lines = <<>>)

\* a free-form response was rendered although a line with one colon was dropped
C15_Witness ==
  /\ parsePc = "rendered"
  /\ FreeFormPath
  /\ \E k \in 1..Len(Split(responseText, "\n")) :
       ColonCount(Split(responseText, "\n")[k]) = 1

\* C20: whenever the key-value path is selected the list of pairs is not
\* empty, so the validation error of line 211 is never thrown.
C20_PairsNeverEmpty ==
  /\ parsePc # "invalid"
  /\ (parsePc # "click" /\ KeyValuePath) => termDefPairs # <<>>

\* the key-value path was taken for a text that has a line without a pair
C20_Witness ==
  /\ parsePc = "awaitEmoji"
  /\ Len(termDefPairs) < Len(Split(topic, "\n"))
====
